---- MODULE Spec2Model ----
(***************************************************************************)
(* A model of the separate-chaining hash map of src/src/lib.rs and of the  *)
(* singly linked list (the chain) of src/src/linked_list.rs.               *)
(*                                                                         *)
(* A chain is a record [elems, size]: elems is the sequence of elements    *)
(* reachable from head (front first), size is the list's own counter.      *)
(* An Option is a sequence of length 0 (None) or 1 (Some).                 *)
(* A table index i of the code is position i + 1 of the sequence `table'.  *)
(***************************************************************************)
EXTENDS Integers, Sequences, FiniteSets, TLC

\* ---------------------------------------------------------------- bounds
\* keys are 1 .. NumKeys
NumKeys == 7
\* number of distinct keys the growth scenario inserts
GrowthKeys == 16
\* the chain scenario pushes elements 1 .. NumElems
NumElems == 3
\* and lets the chain grow to MaxChain nodes
MaxChain == 4

\* ------------------------------------------------------ program constants
DEFAULT_CAPACITY == 8
\* DEFAULT_LOAD_FACTOR = 0.75 as the fraction LoadNum / LoadDen
LoadNum == 3
LoadDen == 4

Keys == 1 .. NumKeys
\* The code never inspects a value (V : Debug only): two values tell a
\* replaced value from a kept one.
Values == {17, 78}
None == << >>
Some(x) == << x >>
\* the elements of the chain scenario (LinkedList<i32> of test::basic)
Elems == 1 .. NumElems

VARIABLES
    table,      \* HashMap.table : sequence of chains
    size,       \* HashMap.size
    capacity,   \* HashMap.capacity
    threshold,  \* HashMap.threshold
    hasher,     \* the hash of every key (DefaultHasher is deterministic)
    status,     \* "ok", or "panicked" once a call has panicked
    yielded,    \* Some(the pairs the last traversal yielded), None once the
                \* map has been changed since
    inserted,   \* the loop counter i of the growth scenario
    list,       \* the LinkedList of the chain scenario
    pending,    \* the elements pushed on `list' and not popped since, oldest
                \* first
    popped      \* Some(what the last call returned) if it was a pop, else None

vars == << table, size, capacity, threshold, hasher, status, yielded, inserted,
           list, pending, popped >>

\* ------------------------------------------------------------ linked list
\* LinkedList::new
NewList == [elems |-> << >>, size |-> 0]

\* push that links the new node behind the last one
PushBack(l, el) == [elems |-> Append(l.elems, el), size |-> l.size + 1]

\* LinkedList::push : the new node becomes the head
Push(l, el) == [elems |-> << el >> \o l.elems, size |-> l.size + 1]

\* pop that leaves the counter as it is
PopKeepCount(l) ==
    IF l.elems = << >>
    THEN [list |-> l, ret |-> None]
    ELSE [list |-> [elems |-> Tail(l.elems), size |-> l.size],
          ret  |-> Some(Head(l.elems))]

\* pop that unlinks the node farthest from head
PopOldest(l) ==
    IF l.elems = << >>
    THEN [list |-> l, ret |-> None]
    ELSE [list |-> [elems |-> SubSeq(l.elems, 1, Len(l.elems) - 1),
                    size  |-> IF l.size > 0 THEN l.size - 1 ELSE l.size],
          ret  |-> Some(l.elems[Len(l.elems)])]

\* LinkedList::pop : [list, ret]; the counter is floored at zero
Pop(l) ==
    IF l.elems = << >>
    THEN [list |-> l, ret |-> None]
    ELSE [list |-> [elems |-> Tail(l.elems),
                    size  |-> IF l.size > 0 THEN l.size - 1 ELSE l.size],
          ret  |-> Some(Head(l.elems))]

\* LinkedList::size
ListSize(l) == l.size

\* for el in list.into_iter() : IntoIter::next is pop, until it returns None
RECURSIVE IntoIterAll(_)
IntoIterAll(l) ==
    LET p == Pop(l) IN
    IF p.ret = None THEN << >> ELSE << p.ret[1] >> \o IntoIterAll(p.list)

\* ------------------------------------------------------------------- map
\* The map as a value: the four fields and a flag set when a call panics.
MapRec(t, s, c, th) ==
    [table |-> t, size |-> s, capacity |-> c, threshold |-> th, panicked |-> FALSE]

\* HashMap::new
NewMap ==
    MapRec(<< >>, 0, DEFAULT_CAPACITY, (DEFAULT_CAPACITY * LoadNum) \div LoadDen)

\* (0..n).map(|_| LinkedList::new()).collect()
EmptyTable(n) == [i \in 1 .. n |-> NewList]

\* index_for that takes the remainder by the default capacity
index_forDefault(m, h, k) ==
    IF Len(m.table) = 0 THEN -1 ELSE h[k] % DEFAULT_CAPACITY

\* HashMap::index_for : hash as usize % self.table.len(); -1 stands for the
\* panic of the remainder by zero
index_for(m, h, k) ==
    IF Len(m.table) = 0 THEN -1 ELSE h[k] % Len(m.table)

\* find that finds nothing
FindKeyNever(elems, k) == 0

\* find that looks at the head of the chain only
FindKeyHead(elems, k) ==
    IF elems # << >> /\ elems[1][1] = k THEN 1 ELSE 0

\* iter_mut().find(|(k, _v)| *k == new_key) : position of the first pair of
\* the chain with that key, 0 if there is none
FindKey(elems, k) ==
    IF \E i \in 1 .. Len(elems) : elems[i][1] = k
    THEN CHOOSE i \in 1 .. Len(elems) :
            /\ elems[i][1] = k
            /\ \A j \in 1 .. (i - 1) : elems[j][1] # k
    ELSE 0

\* size left as it is
DecSizeKeep(m) == m

\* self.size -= 1 : on underflow the subtraction on usize panics (overflow
\* checks are on in the profile the tests run under)
DecSize(m) ==
    IF m.size = 0 THEN [m EXCEPT !.panicked = TRUE]
    ELSE [m EXCEPT !.size = m.size - 1]

\* the test with > for >=
NeedsResizeAbove(m) == Len(m.table) = 0 \/ m.size > m.threshold

\* the test that sees the unallocated table only
NeedsResizeFirstOnly(m) == Len(m.table) = 0

\* The test of put that decides a resize:
\* self.table.len() == 0 || self.size >= self.threshold
NeedsResize(m) == Len(m.table) = 0 \/ m.size >= m.threshold

RECURSIVE put(_, _, _, _), resize(_, _), ReinsertList(_, _, _), ReinsertTable(_, _, _, _)

\* the re-insertion without the self.size -= 1 that follows each put
RECURSIVE ReinsertListNoDec(_, _, _)
ReinsertListNoDec(m, h, l) ==
    LET p == Pop(l) IN
    IF p.ret = None \/ m.panicked THEN m
    ELSE LET pair == p.ret[1]
             m1 == put(m, h, pair[1], pair[2]).map
         IN ReinsertListNoDec(m1, h, p.list)

\* t.into_iter().for_each(|pair| { self.put(pair.0, pair.1); self.size -= 1; })
ReinsertList(m, h, l) ==
    LET p == Pop(l) IN
    IF p.ret = None \/ m.panicked THEN m
    ELSE LET pair == p.ret[1]
             m1 == put(m, h, pair[1], pair[2]).map
             m2 == IF m1.panicked THEN m1 ELSE DecSize(m1)
         IN ReinsertList(m2, h, p.list)

\* the loop from the second list on: for i in 1..temp.len()
RECURSIVE ReinsertTableSkipFirst(_, _, _, _)
ReinsertTableSkipFirst(m, h, temp, i) ==
    IF i > Len(temp) \/ m.panicked THEN m
    ELSE IF i = 1 THEN ReinsertTableSkipFirst(m, h, temp, 2)
    ELSE ReinsertTableSkipFirst(ReinsertList(m, h, temp[i]), h, temp, i + 1)

\* for i in 0..temp.len() { ... }, i counted from 1 here
ReinsertTable(m, h, temp, i) ==
    IF i > Len(temp) \/ m.panicked THEN m
    ELSE ReinsertTable(ReinsertList(m, h, temp[i]), h, temp, i + 1)

\* resize that takes the doubling branch on first use too
resizeFirstUseDoubles(m, h) ==
    LET n == Len(m.table) IN
    LET m1 == [m EXCEPT !.threshold =
                            ((DEFAULT_CAPACITY * 2) * LoadNum) \div LoadDen,
                        !.capacity = m.capacity * 2,
                        !.table = EmptyTable(
                            IF n = 0 THEN DEFAULT_CAPACITY * 2 ELSE n * 2)]
    IN ReinsertTable(m1, h, m.table, 1)

\* resize that computes the threshold from the old length n
resizeStaleThreshold(m, h) ==
    LET n == Len(m.table) IN
    IF n = 0
    THEN [m EXCEPT !.table = EmptyTable(DEFAULT_CAPACITY)]
    ELSE LET m1 == [m EXCEPT !.threshold = (n * LoadNum) \div LoadDen,
                             !.capacity = m.capacity * 2,
                             !.table = EmptyTable(n * 2)]
         IN ReinsertTable(m1, h, m.table, 1)

\* resize that sets the new threshold after the re-insertion
resizeThresholdLate(m, h) ==
    LET n == Len(m.table) IN
    IF n = 0
    THEN [m EXCEPT !.table = EmptyTable(DEFAULT_CAPACITY)]
    ELSE LET m1 == [m EXCEPT !.capacity = m.capacity * 2,
                             !.table = EmptyTable(n * 2)]
             m2 == ReinsertTable(m1, h, m.table, 1)
         IN [m2 EXCEPT !.threshold = ((n * 2) * LoadNum) \div LoadDen]

\* HashMap::resize
resize(m, h) ==
    LET n == Len(m.table) IN
    IF n = 0
    THEN [m EXCEPT !.table = EmptyTable(DEFAULT_CAPACITY)]
    ELSE LET m1 == [m EXCEPT !.threshold = ((n * 2) * LoadNum) \div LoadDen,
                             !.capacity = m.capacity * 2,
                             !.table = EmptyTable(n * 2)]
         IN ReinsertTable(m1, h, m.table, 1)

\* HashMap::put : [map, ret]
put(m, h, new_key, new_value) ==
    LET m1 == IF NeedsResize(m) THEN resize(m, h) ELSE m
        index == index_for(m1, h, new_key)
    IN
    IF m1.panicked THEN [map |-> m1, ret |-> None]
    ELSE IF index < 0 THEN [map |-> [m1 EXCEPT !.panicked = TRUE], ret |-> None]
    ELSE LET chain == m1.table[index + 1]
             pos == FindKey(chain.elems, new_key)
         IN
         IF pos # 0
         THEN [map |-> [m1 EXCEPT !.table[index + 1].elems[pos] =
                                        << new_key, new_value >>],
               ret |-> Some(chain.elems[pos][2])]
         ELSE [map |-> [m1 EXCEPT !.table[index + 1] =
                                        Push(chain, << new_key, new_value >>),
                                  !.size = m1.size + 1],
               ret |-> None]

\* the for_each without self.size -= 1
RECURSIVE GetDrainNoDec(_, _, _)
GetDrainNoDec(acc, l, k) ==
    LET p == Pop(l) IN
    IF p.ret = None \/ acc.m.panicked THEN acc
    ELSE LET pair == p.ret[1] IN
         IF pair[1] = k
         THEN GetDrainNoDec([acc EXCEPT !.res = Some(pair[2])], p.list, k)
         ELSE GetDrainNoDec([acc EXCEPT !.new_list = Push(acc.new_list, pair)],
                            p.list, k)

\* The for_each of HashMap::get over temp.into_iter(): acc is
\* [m, new_list, res], l the rest of the drained chain.
RECURSIVE GetDrain(_, _, _)
GetDrain(acc, l, k) ==
    LET p == Pop(l) IN
    IF p.ret = None \/ acc.m.panicked THEN acc
    ELSE LET pair == p.ret[1] IN
         IF pair[1] = k
         THEN GetDrain([acc EXCEPT !.m = DecSize(acc.m),
                                   !.res = Some(pair[2])], p.list, k)
         ELSE GetDrain([acc EXCEPT !.new_list = Push(acc.new_list, pair)],
                       p.list, k)

\* get that never stores new_list back into the table
getNoWriteBack(m, h, k) ==
    LET index == index_for(m, h, k) IN
    IF index < 0 THEN [map |-> [m EXCEPT !.panicked = TRUE], ret |-> None]
    ELSE LET temp == m.table[index + 1]
             m1 == [m EXCEPT !.table[index + 1] = NewList]
             d == GetDrain([m |-> m1, new_list |-> NewList, res |-> None], temp, k)
         IN [map |-> d.m, ret |-> d.res]

\* HashMap::get : [map, ret]
get(m, h, k) ==
    LET index == index_for(m, h, k) IN
    IF index < 0 THEN [map |-> [m EXCEPT !.panicked = TRUE], ret |-> None]
    ELSE LET temp == m.table[index + 1]
             m1 == [m EXCEPT !.table[index + 1] = NewList]
             d == GetDrain([m |-> m1, new_list |-> NewList, res |-> None], temp, k)
             m2 == IF ListSize(d.new_list) > 0
                   THEN [d.m EXCEPT !.table[index + 1] = d.new_list]
                   ELSE d.m
         IN [map |-> m2, ret |-> d.res]

\* HashMap::size
MapSize(m) == m.size

\* -------------------------------------------------------------- iterators
\* an iterator that walks the chain from its tail
ListIterFromTail(l) ==
    [next |-> [i \in 1 .. Len(l.elems) |-> l.elems[Len(l.elems) + 1 - i]]]

\* LinkedList::iter : the iterator holds the nodes not yet yielded
ListIter(l) == [next |-> l.elems]

\* linked_list::Iter::next : [it, ret]
ListIterNext(it) ==
    IF it.next = << >>
    THEN [it |-> it, ret |-> None]
    ELSE [it |-> [next |-> Tail(it.next)], ret |-> Some(Head(it.next))]

\* the search that takes the list at `index' whatever its size
ScanListsNoSkip(t, index) ==
    IF index = Len(t) THEN [index |-> index, iter |-> None]
    ELSE [index |-> index + 1, iter |-> Some(ListIter(t[index + 1]))]

\* The loops of HashMap::iter and of Iter::next that look for the next list
\* whose size is not 0, from table index `index' on: the iterator of that
\* list (None at the end of the table) and the index after it.
RECURSIVE ScanLists(_, _)
ScanLists(t, index) ==
    IF index = Len(t) THEN [index |-> index, iter |-> None]
    ELSE IF ListSize(t[index + 1]) = 0 THEN ScanLists(t, index + 1)
    ELSE [index |-> index + 1, iter |-> Some(ListIter(t[index + 1]))]

\* HashMap::iter : the Iter {index, table, iter}
MapIter(t) == ScanLists(t, 0)

\* Iter::next : [it, ret]
MapIterNext(it, t) ==
    IF it.iter = None THEN [it |-> it, ret |-> None]
    ELSE LET r == ListIterNext(it.iter[1]) IN
         IF r.ret # None
         THEN [it |-> [it EXCEPT !.iter = Some(r.it)], ret |-> r.ret]
         ELSE LET s == ScanLists(t, it.index) IN
              IF s.iter = None
              THEN [it |-> [it EXCEPT !.index = s.index], ret |-> None]
              ELSE LET f == ListIterNext(s.iter[1]) IN
                   [it |-> [index |-> s.index, iter |-> Some(f.it)],
                    ret |-> f.ret]

\* for pair in map.iter() { ... } : the pairs yielded up to the first None
RECURSIVE Drain(_, _, _)
Drain(it, t, acc) ==
    LET r == MapIterNext(it, t) IN
    IF r.ret = None THEN [it |-> r.it, items |-> acc]
    ELSE Drain(r.it, t, Append(acc, r.ret[1]))

Traversal(t) == Drain(MapIter(t), t, << >>)

\* ------------------------------------------------------------ the machine
CurMap == MapRec(table, size, capacity, threshold)

\* The hash of key k is (6 * k) % m. With m = 20, under 8 buckets the keys
\* collide in chains of up to three; under 16 buckets one pair stays together
\* and the other chains separate.
HashOf(m) == [k \in 1 .. (NumKeys + GrowthKeys) |-> (6 * k) % m]
HashFns == { HashOf(m) : m \in {20} }

InitMap ==
    /\ table = NewMap.table
    /\ size = NewMap.size
    /\ capacity = NewMap.capacity
    /\ threshold = NewMap.threshold
    /\ status = "ok"
    /\ yielded = None
    /\ inserted = 0
    /\ list = NewList
    /\ pending = << >>
    /\ popped = None

Init ==
    /\ InitMap
    /\ hasher \in HashFns

\* The state after a put or get that returned r (the returned Option, r.ret,
\* goes to the caller).
Commit(r) ==
    /\ table' = r.map.table
    /\ size' = r.map.size
    /\ capacity' = r.map.capacity
    /\ threshold' = r.map.threshold
    /\ status' = IF r.map.panicked THEN "panicked" ELSE "ok"
    /\ yielded' = None
    /\ UNCHANGED << hasher, list, pending, popped >>

\* map.put(k, v)
Put(k, v) ==
    /\ status = "ok"
    /\ Commit(put(CurMap, hasher, k, v))
    /\ UNCHANGED inserted

\* map.get(k)
Get(k) ==
    /\ status = "ok"
    /\ Commit(get(CurMap, hasher, k))
    /\ UNCHANGED inserted

\* for pair in map.iter() { ... } : iter takes &self, the map is unchanged
Traverse ==
    /\ status = "ok"
    /\ yielded' = Some(Traversal(table).items)
    /\ UNCHANGED << table, size, capacity, threshold, hasher, status, inserted,
                    list, pending, popped >>

Next ==
    \/ \E k \in Keys, v \in Values : Put(k, v)
    \/ \E k \in Keys : Get(k)

Spec == Init /\ [][Next]_vars

\* The calls of Spec and the traversals between them.
NextIter ==
    \/ \E k \in Keys, v \in Values : Put(k, v)
    \/ \E k \in Keys : Get(k)
    \/ Traverse

SpecIter == Init /\ [][NextIter]_vars

\* The growth scenario of tests::resize: for i in .. { map.put(i, i) } over a
\* new map, under a wider choice of hash functions.
GrowthHashFns == { HashOf(m) : m \in 17 .. 40 }

InitGrowth ==
    /\ InitMap
    /\ hasher \in GrowthHashFns

GrowthPut ==
    /\ status = "ok"
    /\ inserted < GrowthKeys
    /\ Commit(put(CurMap, hasher, inserted + 1, inserted + 1))
    /\ inserted' = inserted + 1

NextGrowth == GrowthPut

SpecGrowth == InitGrowth /\ [][NextGrowth]_vars

\* The chain scenario of test::basic: pushes and pops on one LinkedList.
\* list.push(x)
ListPush(x) ==
    /\ Len(list.elems) < MaxChain
    /\ list' = Push(list, x)
    /\ pending' = Append(pending, x)
    /\ popped' = None
    /\ UNCHANGED << table, size, capacity, threshold, hasher, status, yielded,
                    inserted >>

\* el = list.pop()
ListPop ==
    /\ list' = Pop(list).list
    /\ popped' = Some(Pop(list).ret)
    /\ pending' = IF pending = << >> THEN pending
                  ELSE SubSeq(pending, 1, Len(pending) - 1)
    /\ UNCHANGED << table, size, capacity, threshold, hasher, status, yielded,
                    inserted >>

NextChain ==
    \/ \E x \in Elems : ListPush(x)
    \/ ListPop

SpecChain == Init /\ [][NextChain]_vars

\* ---------------------------------------------- vocabulary of the properties
\* the positions << bucket, place in the chain >> of the live entries
Positions(t) ==
    UNION { { << i, j >> : j \in 1 .. Len(t[i].elems) } : i \in 1 .. Len(t) }

\* the live entries as a set of pairs
EntriesOf(t) == { t[p[1]].elems[p[2]] : p \in Positions(t) }

\* the number of live entries
TotalEntries(t) == Cardinality(Positions(t))

\* the number of entries with key k
KeyCount(t, k) ==
    Cardinality({ p \in Positions(t) : t[p[1]].elems[p[2]][1] = k })

\* key k among the entries es, and the values es holds for it
KeyIn(es, k) == \E e \in es : e[1] = k
ValuesIn(es, k) == { e[2] : e \in { x \in es : x[1] = k } }

Present(t, k) == KeyIn(EntriesOf(t), k)

\* the values stored under key k
ValuesAt(t, k) == ValuesIn(EntriesOf(t), k)

\* the chain of key k's bucket under the table's current length
BucketOf(t, h, k) == t[(h[k] % Len(t)) + 1]

\* C1: once the table is allocated, get(k) of a present key returns its
\* value, removes that entry and no other, and lowers size by exactly 1, and
\* the get(k) that follows returns None; get(k) of an absent key returns None
\* and leaves size and the entries as they are.
C1_DestructiveGet ==
    (status = "ok" /\ Len(table) > 0) =>
        LET live == EntriesOf(table) IN
        \A k \in Keys :
            LET r == get(CurMap, hasher, k) IN
            /\ ~r.map.panicked
            /\ IF KeyIn(live, k)
               THEN /\ \A v \in ValuesIn(live, k) : r.ret = Some(v)
                    /\ EntriesOf(r.map.table) = { e \in live : e[1] # k }
                    /\ MapSize(r.map) = size - 1
                    /\ LET r2 == get(r.map, hasher, k) IN
                       /\ ~r2.map.panicked
                       /\ r2.ret = None
                       /\ MapSize(r2.map) = MapSize(r.map)
               ELSE /\ r.ret = None
                    /\ MapSize(r.map) = size
                    /\ EntriesOf(r.map.table) = live

\* a get that hits in a chain holding other entries too
C1_Witness ==
    /\ status = "ok"
    /\ \E k \in Keys :
        /\ Len(table) > 0
        /\ Present(table, k)
        /\ Len(BucketOf(table, hasher, k).elems) >= 2
        /\ get(CurMap, hasher, k).ret # None
        /\ MapSize(get(CurMap, hasher, k).map) = size - 1

\* C2: put(k, v2) of a present key returns the value stored before, leaves
\* size unchanged and leaves exactly one entry for k, holding v2; also when
\* the put resizes.
C2_Overwrite ==
    status = "ok" =>
        LET live == EntriesOf(table) IN
        \A k \in Keys :
            KeyIn(live, k) =>
                \A v2 \in Values :
                    LET r == put(CurMap, hasher, k, v2) IN
                    /\ ~r.map.panicked
                    /\ \A v \in ValuesIn(live, k) : r.ret = Some(v)
                    /\ MapSize(r.map) = size
                    /\ KeyCount(r.map.table, k) = 1
                    /\ ValuesAt(r.map.table, k) = {v2}

\* an overwriting put with another value that resizes the table
C2_Witness ==
    /\ status = "ok"
    /\ \E k \in Keys, v2 \in Values :
        /\ Present(table, k)
        /\ v2 \notin ValuesAt(table, k)
        /\ size >= threshold
        /\ LET r == put(CurMap, hasher, k, v2) IN
           /\ r.ret # None
           /\ Len(r.map.table) = 2 * Len(table)
           /\ ValuesAt(r.map.table, k) = {v2}

\* C3: the map never holds two entries with equal keys, in one bucket or in
\* two.
C3_KeyUniqueness == \A k \in Keys : KeyCount(table, k) <= 1

\* a resized table, every key present, a chain of two or more
C3_Witness ==
    /\ Len(table) > DEFAULT_CAPACITY
    /\ \A k \in Keys : Present(table, k)
    /\ \E i \in 1 .. Len(table) : Len(table[i].elems) >= 2

\* C4: put(k, v) of an absent key returns None, raises size by exactly 1,
\* leaves (k, v) at the front of the chain of k's bucket (in front of the
\* chain as it was, when the put does not resize), and the get(k) that follows
\* returns v.
C4_InsertNew ==
    status = "ok" =>
        LET live == EntriesOf(table) IN
        \A k \in Keys :
            ~KeyIn(live, k) =>
                \A v \in Values :
                    LET r == put(CurMap, hasher, k, v)
                        chain == BucketOf(r.map.table, hasher, k)
                    IN
                    /\ ~r.map.panicked
                    /\ r.ret = None
                    /\ MapSize(r.map) = size + 1
                    /\ chain.elems # << >>
                    /\ Head(chain.elems) = << k, v >>
                    /\ Len(r.map.table) = Len(table) =>
                           Tail(chain.elems) = BucketOf(table, hasher, k).elems
                    /\ get(r.map, hasher, k).ret = Some(v)

\* a put of a new key in front of a chain that holds entries already
C4_Witness ==
    /\ status = "ok"
    /\ Len(table) > 0
    /\ size < threshold
    /\ \E k \in Keys :
        /\ ~Present(table, k)
        /\ BucketOf(table, hasher, k).elems # << >>
        /\ \E v \in Values :
              Len(BucketOf(put(CurMap, hasher, k, v).map.table, hasher, k).elems) >= 2

\* C5: no call panics on the index of a table that is not allocated yet; in
\* particular get(k) on a new map returns.
C5_NoIndexOnEmptyTable == status # "panicked"

\* C6: get never changes the bucket count; a put never lowers it, and on an
\* allocated table a put doubles it if size >= threshold when put is called,
\* and leaves it unchanged otherwise.
C6_GrowthRule ==
    status = "ok" =>
        /\ \A k \in Keys : Len(get(CurMap, hasher, k).map.table) = Len(table)
        /\ \A k \in Keys, v \in Values :
              LET n == Len(put(CurMap, hasher, k, v).map.table) IN
              /\ n >= Len(table)
              /\ Len(table) > 0 =>
                    n = IF size >= threshold THEN 2 * Len(table) ELSE Len(table)

\* a put of a new key at size = threshold, which doubles the table
C6_Witness ==
    /\ status = "ok"
    /\ Len(table) > 0
    /\ size = threshold
    /\ \E k \in Keys, v \in Values :
        /\ ~Present(table, k)
        /\ Len(put(CurMap, hasher, k, v).map.table) = 2 * Len(table)
        /\ put(CurMap, hasher, k, v).map.threshold > size + 1

\* C7: in the growth scenario size is the number of distinct keys inserted
\* at every step; the new map has capacity 8 and threshold 6; the capacity is
\* 8 while size <= 6, 16 after the 7th insertion (until the 12th) and 32
\* after the 16th (from the 13th on), and from the first insertion on the
\* table has that many buckets.
C7_DefaultGrowth ==
    /\ status = "ok"
    /\ MapSize(CurMap) = inserted
    /\ inserted = 0 => threshold = 6
    /\ inserted <= 6 => capacity = 8
    /\ (inserted >= 7 /\ inserted <= 12) => capacity = 16
    /\ (inserted >= 13 /\ inserted <= 24) => capacity = 32
    /\ inserted >= 1 => Len(table) = capacity

\* the 16th insertion done
C7_Witness == inserted = 16 /\ Len(table) = 32 /\ size = 16

\* C8: a put that resizes keeps every entry whose key is not the put's key
\* (the get of that key on the resized map returns its value) and brings in
\* no key but the put's; resize alone keeps the entries as they are.
C8_RehashPreserves ==
    (status = "ok" /\ Len(table) > 0 /\ size >= threshold) =>
        LET before == EntriesOf(table) IN
        /\ EntriesOf(resize(CurMap, hasher).table) = before
        /\ \A k \in Keys, v \in Values :
              LET r == put(CurMap, hasher, k, v)
                  after == EntriesOf(r.map.table)
              IN
              /\ Len(r.map.table) # Len(table)
              /\ \A e \in before :
                    e[1] # k =>
                        /\ e \in after
                        /\ get(r.map, hasher, e[1]).ret = Some(e[2])
              /\ \A e \in after : e[1] = k \/ e \in before

\* a resize that moves entries of one chain to two buckets
C8_Witness ==
    /\ status = "ok"
    /\ Len(table) > 0
    /\ size >= threshold
    /\ \E k1, k2 \in Keys :
        /\ k1 # k2
        /\ Present(table, k1)
        /\ Present(table, k2)
        /\ hasher[k1] % Len(table) = hasher[k2] % Len(table)
        /\ hasher[k1] % (2 * Len(table)) # hasher[k2] % (2 * Len(table))
        /\ Present(resize(CurMap, hasher).table, k1)
        /\ Present(resize(CurMap, hasher).table, k2)

\* C9: size is the number of live entries of all the buckets.
C9_SizeCountsEntries == MapSize(CurMap) = TotalEntries(table)

\* a resized table that gets have brought below the former threshold
C9_Witness ==
    /\ Len(table) > DEFAULT_CAPACITY
    /\ size >= 1
    /\ size < (DEFAULT_CAPACITY * LoadNum) \div LoadDen

\* C10: a full traversal yields exactly the live entries, each once, no key
\* twice, and then None.
C10_IterationComplete ==
    yielded # None =>
        LET ys == yielded[1] IN
        /\ Len(ys) = TotalEntries(table)
        /\ \A i, j \in 1 .. Len(ys) : ys[i][1] = ys[j][1] => i = j
        /\ { ys[i] : i \in 1 .. Len(ys) } = EntriesOf(table)
        /\ MapIterNext(Traversal(table).it, table).ret = None

\* a traversal of a resized table whose first and last buckets are empty, with
\* an empty bucket between two that hold entries
C10_Witness ==
    /\ yielded # None
    /\ Len(yielded[1]) >= 3
    /\ Len(table) > DEFAULT_CAPACITY
    /\ table[1].elems = << >>
    /\ table[Len(table)].elems = << >>
    /\ \E a, b, c \in 1 .. Len(table) :
        /\ a < b
        /\ b < c
        /\ table[a].elems # << >>
        /\ table[b].elems = << >>
        /\ table[c].elems # << >>

\* the chains of buckets 1 .. n of t, one after the other, each head to tail
RECURSIVE ChainsInOrder(_, _)
ChainsInOrder(t, n) ==
    IF n = 0 THEN << >> ELSE ChainsInOrder(t, n - 1) \o t[n].elems

\* the place of key k in the sequence of pairs ys, 0 if it is not there
PlaceOf(ys, k) ==
    IF \E i \in 1 .. Len(ys) : ys[i][1] = k
    THEN CHOOSE i \in 1 .. Len(ys) : ys[i][1] = k
    ELSE 0

\* C11 (as stated): a traversal yields the entry most recently inserted into
\* a bucket before the other entries of that bucket: after put(k, v) of a new
\* key and a get of another key j, the traversal yields k before every other
\* entry of k's bucket.
C11_MostRecentFirst ==
    (status = "ok" /\ Len(table) > 0) =>
        \A k \in Keys, v \in Values, j \in Keys :
            (~Present(table, k) /\ j # k) =>
                LET m1 == put(CurMap, hasher, k, v).map
                    m2 == get(m1, hasher, j).map
                    ys == Traversal(m2.table).items
                IN \A e \in EntriesOf(m2.table) :
                      (e[1] # k /\ hasher[e[1]] % Len(m2.table)
                                     = hasher[k] % Len(m2.table)) =>
                          PlaceOf(ys, k) < PlaceOf(ys, e[1])

\* C11 (amended): a traversal yields the buckets in increasing index order
\* and each bucket's chain from head to tail.
C11_ChainOrder ==
    yielded # None => yielded[1] = ChainsInOrder(table, Len(table))

\* a traversal of a chain of three between other chains
C11_Witness ==
    /\ yielded # None
    /\ \E a, b, c \in 1 .. Len(table) :
        /\ a < b
        /\ b < c
        /\ table[a].elems # << >>
        /\ Len(table[b].elems) >= 3
        /\ table[c].elems # << >>

\* C12: the first put on a new map allocates exactly DEFAULT_CAPACITY chains,
\* empty but for the pair put, and leaves threshold and capacity as new set
\* them; the get that empties the map again leaves the 8 buckets.
C12_FirstUse ==
    (status = "ok" /\ Len(table) = 0) =>
        /\ size = 0
        /\ resize(CurMap, hasher) =
               [CurMap EXCEPT !.table = EmptyTable(DEFAULT_CAPACITY)]
        /\ \A k \in Keys, v \in Values :
              LET r == put(CurMap, hasher, k, v)
                  g == get(r.map, hasher, k)
              IN
              /\ ~r.map.panicked
              /\ Len(r.map.table) = 8
              /\ r.map.threshold = threshold
              /\ r.map.threshold = 6
              /\ r.map.capacity = 8
              /\ ChainsInOrder(r.map.table, 8) = << << k, v >> >>
              /\ g.ret = Some(v)
              /\ MapSize(g.map) = 0
              /\ g.map.table = EmptyTable(8)
              /\ g.map.threshold = 6

\* the map emptied by a get after the first put
C12_Witness ==
    /\ status = "ok"
    /\ Len(table) = DEFAULT_CAPACITY
    /\ table = EmptyTable(DEFAULT_CAPACITY)
    /\ size = 0
    /\ threshold = 6

\* C13: after any pushes and pops the counter of the chain is the number of
\* nodes reachable from head; pop on the empty chain returns None and leaves
\* the counter 0; the pop of the last node leaves counter 0 and head None.
C13_ChainCount ==
    /\ ListSize(list) = Len(list.elems)
    /\ list.elems = << >> =>
          /\ Pop(list).ret = None
          /\ ListSize(Pop(list).list) = 0
          /\ Pop(list).list.elems = << >>
    /\ Len(list.elems) = 1 => Pop(list).list = NewList
    /\ popped = Some(None) => list = NewList

\* a pop on the empty chain
C13_Witness ==
    /\ popped = Some(None)
    /\ pending = << >>
    /\ ListSize(list) = 0

\* the sequence s back to front
RECURSIVE Reverse(_)
Reverse(s) ==
    IF s = << >> THEN << >> ELSE Append(Reverse(Tail(s)), Head(s))

\* C14: the chain is last-in first-out: pop, and consuming iteration, return
\* the elements in the reverse order of their pushes; push(x) then pop() returns
\* x and restores the contents and the counter of the chain.
C14_ChainLifo ==
    /\ list.elems = Reverse(pending)
    /\ IntoIterAll(list) = Reverse(pending)
    /\ pending # << >> => Pop(list).ret = Some(pending[Len(pending)])
    /\ \A x \in Elems : Pop(Push(list, x)) = [list |-> list, ret |-> Some(x)]

\* a pop that returned the newest of three or more distinct pushes
C14_Witness ==
    /\ popped # None
    /\ popped[1] # None
    /\ Len(pending) >= 2
    /\ \A i, j \in 1 .. Len(pending) : i # j => pending[i] # pending[j]
    /\ \A i \in 1 .. Len(pending) : pending[i] # popped[1][1]

\* C15: every live entry (k, v) is in the chain at index hash(k) mod the
\* current bucket count; a put that resizes stores its new entry at the index
\* computed after the resize.
C15_BucketPlacement ==
    status = "ok" =>
        /\ \A p \in Positions(table) :
              hasher[table[p[1]].elems[p[2]][1]] % Len(table) = p[1] - 1
        /\ (Len(table) > 0 /\ size >= threshold) =>
              \A k \in Keys, v \in Values :
                  LET t2 == put(CurMap, hasher, k, v).map.table IN
                  /\ Len(t2) = 2 * Len(table)
                  /\ \E j \in 1 .. Len(t2[(hasher[k] % Len(t2)) + 1].elems) :
                        t2[(hasher[k] % Len(t2)) + 1].elems[j] = << k, v >>

\* after a resize, an entry whose index under 16 buckets is not its index
\* under 8
C15_Witness ==
    /\ status = "ok"
    /\ Len(table) = 2 * DEFAULT_CAPACITY
    /\ \E k \in Keys :
          /\ Present(table, k)
          /\ hasher[k] % Len(table) # hasher[k] % DEFAULT_CAPACITY

\* C16: in every state threshold = floor(capacity * 0.75): 6 at 8, 12 at 16,
\* 24 at 32; a resize computes it from the doubled capacity before it
\* re-inserts, so that the re-insertion does not resize again.
C16_ThresholdRule ==
    status = "ok" =>
        /\ threshold = (capacity * LoadNum) \div LoadDen
        /\ << capacity, threshold >> \in { << 8, 6 >>, << 16, 12 >>, << 32, 24 >> }
        /\ Len(table) > 0 => Len(table) = capacity
        /\ Len(table) > 0 =>
              LET r == resize(CurMap, hasher) IN
              /\ ~r.panicked
              /\ r.capacity = 2 * capacity
              /\ r.threshold = (r.capacity * LoadNum) \div LoadDen
              /\ Len(r.table) = r.capacity

\* the state after the second resize
C16_Witness ==
    /\ status = "ok"
    /\ Len(table) = 32
    /\ capacity = 32
    /\ threshold = 24
    /\ size > 12

\* the map resize hands to its re-insertion loop: the doubled empty table,
\* the doubled capacity and the new threshold, size as it was
ResizeStart(m) ==
    [m EXCEPT !.threshold = ((Len(m.table) * 2) * LoadNum) \div LoadDen,
              !.capacity = m.capacity * 2,
              !.table = EmptyTable(Len(m.table) * 2)]

\* C17: a resize leaves size as it was: the re-insertion of each chain gives
\* back every increment; the put that resized adds exactly 1 if its key is new
\* and nothing if it is not.
C17_ResizeKeepsSize ==
    (status = "ok" /\ Len(table) > 0 /\ size >= threshold) =>
        LET live == EntriesOf(table) IN
        /\ MapSize(resize(CurMap, hasher)) = size
        /\ \A i \in 1 .. Len(table) :
              MapSize(ReinsertList(ResizeStart(CurMap), hasher, table[i])) = size
        /\ \A k \in Keys, v \in Values :
              LET r == put(CurMap, hasher, k, v) IN
              /\ Len(r.map.table) = 2 * Len(table)
              /\ MapSize(r.map) = IF KeyIn(live, k) THEN size ELSE size + 1

\* the table doubled by the put of a seventh key
C17_Witness ==
    /\ status = "ok"
    /\ Len(table) = 2 * DEFAULT_CAPACITY
    /\ size = 7
    /\ TotalEntries(table) = 7

\* the pairs of chain l as a set
ChainSet(l) == { l.elems[j] : j \in 1 .. Len(l.elems) }

\* C18: get(k) changes at most the chain of bucket hash(k) mod the bucket
\* count: every other chain keeps its contents and order, and the bucket
\* count, capacity and threshold stay; on a miss k's own bucket keeps its set
\* of entries.
C18_GetFrame ==
    status = "ok" =>
        \A k \in Keys :
            LET r == get(CurMap, hasher, k).map IN
            /\ Len(r.table) = Len(table)
            /\ r.capacity = capacity
            /\ r.threshold = threshold
            /\ \A i \in 1 .. Len(table) :
                  IF i # (hasher[k] % Len(table)) + 1
                  THEN r.table[i] = table[i]
                  ELSE (\A j \in 1 .. Len(table[i].elems) : table[i].elems[j][1] # k)
                       => /\ ChainSet(r.table[i]) = ChainSet(table[i])
                          /\ ListSize(r.table[i]) = ListSize(table[i])
                          /\ MapSize(r) = size

\* a miss in a bucket of two or more entries, which the get reorders, beside
\* other buckets that hold entries
C18_Witness ==
    /\ status = "ok"
    /\ Len(table) > 0
    /\ \E k \in Keys :
          /\ ~Present(table, k)
          /\ Len(BucketOf(table, hasher, k).elems) >= 2
          /\ get(CurMap, hasher, k).map.table # table
          /\ \E i \in 1 .. Len(table) :
                /\ i # (hasher[k] % Len(table)) + 1
                /\ table[i].elems # << >>

\* The re-insertion loop of resize over the chains i .. of temp, with the
\* pairs << size, bucket count >> the map passes through: before each put
\* and between the put and the self.size -= 1 after it.
RECURSIVE ReinsertSeen(_, _, _, _)
ReinsertSeen(m, h, temp, i) ==
    IF i > Len(temp) \/ m.panicked
    THEN [m |-> m, seen |-> { << m.size, Len(m.table) >> }]
    ELSE IF temp[i].elems = << >> THEN ReinsertSeen(m, h, temp, i + 1)
    ELSE LET p == Pop(temp[i])
             m1 == put(m, h, p.ret[1][1], p.ret[1][2]).map
             rest == ReinsertSeen(IF m1.panicked THEN m1 ELSE DecSize(m1), h,
                                  [temp EXCEPT ![i] = p.list], i)
         IN [m |-> rest.m,
             seen |-> { << m.size, Len(m.table) >>,
                        << m1.size, Len(m1.table) >> } \cup rest.seen]

\* C19: between operations size <= threshold; while a resize re-inserts, size
\* stays below the new threshold, so that no put of the re-insertion resizes.
C19_SizeWithinThreshold ==
    status = "ok" =>
        /\ size <= threshold
        /\ (Len(table) > 0 /\ size >= threshold) =>
              LET start == ResizeStart(CurMap)
                  run == ReinsertSeen(start, hasher, table, 1)
              IN
              /\ run.m = resize(CurMap, hasher)
              /\ \A s \in run.seen :
                    /\ s[1] < start.threshold
                    /\ s[2] = 2 * Len(table)
              /\ \E s \in run.seen : s[1] = size + 1

\* more entries than the first threshold, after the resize that let them in
C19_Witness ==
    /\ status = "ok"
    /\ size > (DEFAULT_CAPACITY * LoadNum) \div LoadDen
    /\ size <= threshold
    /\ Len(table) = 2 * DEFAULT_CAPACITY

====
